---- MODULE Spec2Model ----
(***************************************************************************)
(* Model of the voice-demo backend: the three progress-tracker frame       *)
(* processors (backend/progress_tracker.py), the greeting handler of the   *)
(* bot (backend/bot.py) and the room-provisioning endpoint                 *)
(* (backend/server.py).                                                    *)
(*                                                                         *)
(* A frame is a record [kind |-> <class name>, ...]; text frames carry a   *)
(* text field, OutputTransportMessageFrame carries a message field.  A     *)
(* message is a record whose DOMAIN is the key set of the Python dict.     *)
(* Every push_frame call of a processor is appended to that processor's    *)
(* output log as [frame, direction, by, at]: by = "emit" for a frame the   *)
(* processor built itself, "forward" for the incoming frame, and at is the *)
(* index (in the processor's input history) of the frame being processed.  *)
(***************************************************************************)
EXTENDS Integers, Sequences, FiniteSets, TLC

VARIABLES
    focus,                  \* which component the environment exercises
    now,                    \* wall clock in ms, read by int(time.time() * 1000)
    user_message_id,        \* STTProgressProcessor._user_message_id
    sttIn, sttOut,          \* frames received / pushed by STTProgressProcessor
    assistant_text,         \* LLMProgressProcessor._assistant_text
    assistant_message_id,   \* LLMProgressProcessor._assistant_message_id
    llmIn, llmOut,          \* frames received / pushed by LLMProgressProcessor
    is_speaking,            \* TTSStatusProcessor._is_speaking
    ttsIn, ttsOut,          \* frames received / pushed by TTSStatusProcessor
    character,              \* run_bot's character argument
    session,                \* the bot's pipeline task: "running" or "cancelled"
    joined,                 \* on_first_participant_joined has fired
    queued,                 \* frames handed to task.queue_frames by the bot
    app,                    \* server lifespan: "starting", "serving", "stopped"
    aiohttp_session,        \* server._aiohttp_session
    daily_helper,           \* server._daily_helper
    pc,                     \* per connect request: where the handler stands
    room,                   \* per request: the local `room` (its url)
    user_token,             \* per request: the local `user_token`
    bot_token,              \* per request: the local `bot_token`
    background_tasks,       \* per request: the tasks given to add_task
    response                \* per request: what the client receives

procVars == <<user_message_id, sttIn, sttOut, assistant_text,
              assistant_message_id, llmIn, llmOut, is_speaking, ttsIn, ttsOut>>
botVars == <<character, session, joined, queued>>
srvVars == <<app, aiohttp_session, daily_helper, pc, room, user_token, bot_token,
             background_tasks, response>>
vars == <<focus, now, procVars, botVars, srvVars>>

----------------------------------------------------------------------------
(* Bounds *)

MaxFrames == 4          \* frames fed to one processor exercised alone
MaxBotFrames == 4       \* frames fed to the processors of one bot session
MaxClock == 1           \* clock ticks
MaxRequests == 2        \* concurrent /api/connect requests

----------------------------------------------------------------------------
(* Values *)

None == "<None>"        \* Python's None (distinct from every text drawn)
DOWNSTREAM == "DOWNSTREAM"
UPSTREAM == "UPSTREAM"
Directions == {DOWNSTREAM, UPSTREAM}

Texts == {"", "a", "b"}

TextFrame(kind, text) == [kind |-> kind, text |-> text]
PlainFrame(kind) == [kind |-> kind]
OutputTransportMessageFrame(message) ==
    [kind |-> "OutputTransportMessageFrame", message |-> message]

\* `v is None`, for a value of any type (an int is never None)
IsNone(v) == ToString(v) = ToString(None)

\* Python truthiness of an Optional[str]
Truthy(text) == ~IsNone(text) /\ text # ""

\* int(time.time() * 1000)
Timestamp == now

Pushed(frame, direction, by, at) ==
    [frame |-> frame, direction |-> direction, by |-> by, at |-> at]

\* mutant: the incoming frame is always pushed downstream
ForwardFrameDownstream(frame, direction, at) ==
    <<Pushed(frame, DOWNSTREAM, "forward", at)>>

\* the trailing `await self.push_frame(frame, direction)` of every process_frame
ForwardFrame(frame, direction, at) == <<Pushed(frame, direction, "forward", at)>>

----------------------------------------------------------------------------
(* STTProgressProcessor *)

STT_send_status(status, text) ==
    LET message == IF Truthy(text)
                   THEN [type |-> "status", status |-> status, text |-> text]
                   ELSE [type |-> "status", status |-> status]
    IN  [frame |-> OutputTransportMessageFrame(message), direction |-> DOWNSTREAM]

send_transcript(role, text, final, message_id) ==
    LET base == [type |-> "transcript", role |-> role, text |-> text,
                 final |-> final, timestamp |-> Timestamp]
        message == IF ~IsNone(message_id)
                   THEN [type |-> "transcript", role |-> role, text |-> text,
                         final |-> final, timestamp |-> Timestamp,
                         messageId |-> message_id]
                   ELSE base
    IN  [frame |-> OutputTransportMessageFrame(message), direction |-> DOWNSTREAM]

STT_send_transcript(role, text, final, message_id) ==
    send_transcript(role, text, final, message_id)

\* mutant: the counter is never incremented
STTUserMessageIdStuck(frame, id) == id

\* the new value of _user_message_id
STTUserMessageId(frame, id) ==
    IF frame.kind = "InterimTranscriptionFrame" THEN id
    ELSE IF frame.kind = "TranscriptionFrame" THEN id + 1
    ELSE id

\* mutant: status "llm" is sent before the user transcript
STTEmittedStatusFirst(frame, id) ==
    IF frame.kind = "InterimTranscriptionFrame"
    THEN <<STT_send_status("listening", frame.text)>>
    ELSE IF frame.kind = "TranscriptionFrame"
    THEN <<STT_send_status("stt", frame.text),
           STT_send_status("llm", None),
           STT_send_transcript("user", frame.text, TRUE, id + 1)>>
    ELSE <<>>

\* the frames the processor builds and pushes for `frame`, in order
STTEmitted(frame, id) ==
    IF frame.kind = "InterimTranscriptionFrame"
    THEN <<STT_send_status("listening", frame.text)>>
    ELSE IF frame.kind = "TranscriptionFrame"
    THEN <<STT_send_status("stt", frame.text),
           STT_send_transcript("user", frame.text, TRUE, STTUserMessageId(frame, id)),
           STT_send_status("llm", None)>>
    ELSE <<>>

Emit(sends, at) ==
    [i \in 1..Len(sends) |-> Pushed(sends[i].frame, sends[i].direction, "emit", at)]

STTProgressProcessor_process_frame(frame, direction) ==
    LET at == Len(sttIn) + 1 IN
    /\ sttIn' = Append(sttIn, [frame |-> frame, direction |-> direction])
    /\ user_message_id' = STTUserMessageId(frame, user_message_id)
    /\ sttOut' = sttOut \o Emit(STTEmitted(frame, user_message_id), at)
                        \o ForwardFrame(frame, direction, at)
    /\ UNCHANGED <<assistant_text, assistant_message_id, llmIn, llmOut,
                   is_speaking, ttsIn, ttsOut>>

----------------------------------------------------------------------------
(* LLMProgressProcessor *)

LLM_send_transcript(role, text, final, message_id) ==
    send_transcript(role, text, final, message_id)

\* mutant: the new text is put in front of the accumulated text
LLMAccumulatedPrepend(frame, text) ==
    IF frame.kind = "LLMFullResponseStartFrame" THEN ""
    ELSE IF frame.kind = "LLMTextFrame" THEN frame.text \o text
    ELSE text

\* _assistant_text as process_frame leaves it before its sends
LLMAccumulated(frame, text) ==
    IF frame.kind = "LLMFullResponseStartFrame" THEN ""
    ELSE IF frame.kind = "LLMTextFrame" THEN text \o frame.text
    ELSE text

\* _assistant_text when process_frame returns
LLMAssistantText(frame, text) ==
    IF frame.kind = "LLMFullResponseEndFrame"
    THEN IF Truthy(text) THEN "" ELSE text
    ELSE LLMAccumulated(frame, text)

\* mutant: a new response does not get a new messageId
LLMAssistantMessageIdStuck(frame, id) == id

LLMAssistantMessageId(frame, id) ==
    IF frame.kind = "LLMFullResponseStartFrame" THEN id + 1 ELSE id

LLMEmitted(frame, text, id) ==
    IF frame.kind = "LLMFullResponseStartFrame" THEN <<>>
    ELSE IF frame.kind = "LLMTextFrame"
    THEN <<LLM_send_transcript("assistant", LLMAccumulated(frame, text), FALSE, id)>>
    ELSE IF frame.kind = "LLMFullResponseEndFrame"
    THEN IF Truthy(text)
         THEN <<LLM_send_transcript("assistant", text, TRUE, id)>>
         ELSE <<>>
    ELSE <<>>

LLMProgressProcessor_process_frame(frame, direction) ==
    LET at == Len(llmIn) + 1 IN
    /\ llmIn' = Append(llmIn, [frame |-> frame, direction |-> direction])
    /\ assistant_text' = LLMAssistantText(frame, assistant_text)
    /\ assistant_message_id' = LLMAssistantMessageId(frame, assistant_message_id)
    /\ llmOut' = llmOut \o Emit(LLMEmitted(frame, assistant_text, assistant_message_id), at)
                        \o ForwardFrame(frame, direction, at)
    /\ UNCHANGED <<user_message_id, sttIn, sttOut, is_speaking, ttsIn, ttsOut>>

----------------------------------------------------------------------------
(* TTSStatusProcessor *)

TTSStatus(status) ==
    [frame |-> OutputTransportMessageFrame([type |-> "status", status |-> status]),
     direction |-> DOWNSTREAM]

\* mutant: an interruption leaves the flag as it is
TTSIsSpeakingKeptOnInterruption(frame, speaking) ==
    IF frame.kind = "StartInterruptionFrame" THEN speaking
    ELSE IF frame.kind = "TTSStartedFrame" THEN TRUE
    ELSE IF frame.kind = "TTSStoppedFrame" THEN FALSE
    ELSE IF frame.kind = "TTSSpeakFrame" THEN TRUE
    ELSE speaking

TTSIsSpeaking(frame, speaking) ==
    IF frame.kind = "StartInterruptionFrame"
    THEN IF speaking THEN FALSE ELSE speaking
    ELSE IF frame.kind = "TTSStartedFrame"
    THEN IF ~speaking THEN TRUE ELSE speaking
    ELSE IF frame.kind = "TTSStoppedFrame"
    THEN IF speaking THEN FALSE ELSE speaking
    ELSE IF frame.kind = "TTSSpeakFrame"
    THEN IF ~speaking THEN TRUE ELSE speaking
    ELSE speaking

\* mutant: TTSStartedFrame emits "tts" whatever the flag
TTSEmittedUnguarded(frame, speaking) ==
    IF frame.kind = "StartInterruptionFrame"
    THEN IF speaking THEN <<TTSStatus("idle")>> ELSE <<>>
    ELSE IF frame.kind = "TTSStartedFrame"
    THEN <<TTSStatus("tts")>>
    ELSE IF frame.kind = "TTSStoppedFrame"
    THEN IF speaking THEN <<TTSStatus("idle")>> ELSE <<>>
    ELSE IF frame.kind = "TTSSpeakFrame"
    THEN IF ~speaking THEN <<TTSStatus("tts")>> ELSE <<>>
    ELSE <<>>

TTSEmitted(frame, speaking) ==
    IF frame.kind = "StartInterruptionFrame"
    THEN IF speaking THEN <<TTSStatus("idle")>> ELSE <<>>
    ELSE IF frame.kind = "TTSStartedFrame"
    THEN IF ~speaking THEN <<TTSStatus("tts")>> ELSE <<>>
    ELSE IF frame.kind = "TTSStoppedFrame"
    THEN IF speaking THEN <<TTSStatus("idle")>> ELSE <<>>
    ELSE IF frame.kind = "TTSSpeakFrame"
    THEN IF ~speaking THEN <<TTSStatus("tts")>> ELSE <<>>
    ELSE <<>>

TTSStatusProcessor_process_frame(frame, direction) ==
    LET at == Len(ttsIn) + 1 IN
    /\ ttsIn' = Append(ttsIn, [frame |-> frame, direction |-> direction])
    /\ is_speaking' = TTSIsSpeaking(frame, is_speaking)
    /\ ttsOut' = ttsOut \o Emit(TTSEmitted(frame, is_speaking), at)
                        \o ForwardFrame(frame, direction, at)
    /\ UNCHANGED <<user_message_id, sttIn, sttOut, assistant_text,
                   assistant_message_id, llmIn, llmOut>>

----------------------------------------------------------------------------
(* The clock *)

Tick ==
    /\ now < MaxClock
    /\ now' = now + 1
    /\ UNCHANGED <<focus, procVars, botVars, srvVars>>

----------------------------------------------------------------------------
(* Each processor exercised alone on arbitrary frame sequences *)

ForeignFrames ==
    {OutputTransportMessageFrame([type |-> "status", status |-> "idle"])}

STTFrames ==
    {TextFrame("InterimTranscriptionFrame", t) : t \in {"", "a"}}
    \cup {TextFrame("TranscriptionFrame", t) : t \in {"", "a"}}
    \cup ForeignFrames

LLMFrames ==
    {PlainFrame("LLMFullResponseStartFrame"), PlainFrame("LLMFullResponseEndFrame")}
    \cup {TextFrame("LLMTextFrame", t) : t \in Texts}
    \cup ForeignFrames

TTSFrames ==
    {PlainFrame("StartInterruptionFrame"), PlainFrame("TTSStartedFrame"),
     PlainFrame("TTSStoppedFrame"), TextFrame("TTSSpeakFrame", "a")}
    \cup ForeignFrames

\* a processor receives every frame of its set downstream, and from upstream
\* one frame it dispatches on and one it does not
Arriving(frames, upstream) ==
    {[frame |-> f, direction |-> DOWNSTREAM] : f \in frames}
    \cup {[frame |-> f, direction |-> UPSTREAM] : f \in upstream}

STTInputs ==
    Arriving(STTFrames, {TextFrame("TranscriptionFrame", "a")} \cup ForeignFrames)
LLMInputs ==
    Arriving(LLMFrames, {PlainFrame("LLMFullResponseEndFrame")} \cup ForeignFrames)
TTSInputs ==
    Arriving(TTSFrames, {PlainFrame("TTSStartedFrame")} \cup ForeignFrames)

Requests == 1..MaxRequests

Init ==
    /\ now = 0
    /\ user_message_id = 0
    /\ sttIn = <<>> /\ sttOut = <<>>
    /\ assistant_text = ""
    /\ assistant_message_id = 0
    /\ llmIn = <<>> /\ llmOut = <<>>
    /\ is_speaking = FALSE
    /\ ttsIn = <<>> /\ ttsOut = <<>>
    /\ session = "running"
    /\ joined = FALSE
    /\ queued = <<>>
    /\ app = "starting"
    /\ aiohttp_session = None
    /\ daily_helper = None
    /\ pc = [r \in Requests |-> "idle"]
    /\ room = [r \in Requests |-> None]
    /\ user_token = [r \in Requests |-> None]
    /\ bot_token = [r \in Requests |-> None]
    /\ background_tasks = [r \in Requests |-> <<>>]
    /\ response = [r \in Requests |-> None]

InitProc == Init /\ focus \in {"stt", "llm", "tts"} /\ character = "bugs"

STTStep ==
    /\ focus = "stt"
    /\ Len(sttIn) < MaxFrames
    /\ \E in \in STTInputs : STTProgressProcessor_process_frame(in.frame, in.direction)
    /\ UNCHANGED <<focus, now, botVars, srvVars>>

LLMStep ==
    /\ focus = "llm"
    /\ Len(llmIn) < MaxFrames
    /\ \E in \in LLMInputs : LLMProgressProcessor_process_frame(in.frame, in.direction)
    /\ UNCHANGED <<focus, now, botVars, srvVars>>

TTSStep ==
    /\ focus = "tts"
    /\ Len(ttsIn) < MaxFrames
    /\ \E in \in TTSInputs : TTSStatusProcessor_process_frame(in.frame, in.direction)
    /\ UNCHANGED <<focus, now, botVars, srvVars>>

NextProc == STTStep \/ LLMStep \/ TTSStep \/ Tick

SpecProc == InitProc /\ [][NextProc]_vars

----------------------------------------------------------------------------
(* The bot session: run_bot's event handlers around the three processors *)

CHARACTERS ==
    [bugs  |-> [name |-> "Bugs Bunny", voice_id |-> "159131",
                greeting |-> "Hey there, what's up, doc? Bugs Bunny here. So, what can this clever rabbit help you with today?"],
     lola  |-> [name |-> "Lola Bunny", voice_id |-> "159130",
                greeting |-> "Hey there! Lola Bunny here. I'm ready to help you out, so what do you need?"],
     daffy |-> [name |-> "Daffy Duck", voice_id |-> "159123",
                greeting |-> "Well well well, look who finally showed up! It's me, Daffy Duck, the REAL star of the show! What can the most talented duck in show business do for you?"]]

\* CHARACTERS.get(character, CHARACTERS["bugs"])
char_config ==
    IF character \in DOMAIN CHARACTERS THEN CHARACTERS[character] ELSE CHARACTERS["bugs"]

\* the two frames the handler gives to task.queue_frames
GreetingFrames ==
    LET greeting == char_config["greeting"]
    IN  <<OutputTransportMessageFrame(
             [type |-> "transcript", role |-> "assistant", text |-> greeting,
              final |-> TRUE, timestamp |-> Timestamp]),
          TextFrame("TTSSpeakFrame", greeting)>>

on_first_participant_joined ==
    /\ session = "running"
    /\ ~joined
    /\ joined' = TRUE
    /\ queued' = queued \o GreetingFrames
    /\ UNCHANGED <<character, session>>

on_participant_left ==
    /\ session = "running"
    /\ joined
    /\ session' = "cancelled"
    /\ UNCHANGED <<character, joined, queued>>

\* the frames the services of the pipeline hand to each processor in a session
BotSTTFrames ==
    {TextFrame("InterimTranscriptionFrame", "a"), TextFrame("TranscriptionFrame", "a")}
BotLLMFrames ==
    {PlainFrame("LLMFullResponseStartFrame"), TextFrame("LLMTextFrame", "a"),
     PlainFrame("LLMFullResponseEndFrame")}
BotTTSFrames ==
    {PlainFrame("TTSStartedFrame"), PlainFrame("TTSStoppedFrame"),
     PlainFrame("StartInterruptionFrame")}

BotFrameCount == Len(sttIn) + Len(llmIn) + Len(ttsIn)

InitBot == Init /\ focus = "bot" /\ character \in {"bugs", "daffy", "porky"}

BotJoin ==
    /\ focus = "bot"
    /\ on_first_participant_joined
    /\ UNCHANGED <<focus, now, procVars, srvVars>>

BotLeave ==
    /\ focus = "bot"
    /\ on_participant_left
    /\ UNCHANGED <<focus, now, procVars, srvVars>>

BotSTTStep ==
    /\ focus = "bot" /\ session = "running"
    /\ BotFrameCount < MaxBotFrames
    /\ \E frame \in BotSTTFrames : STTProgressProcessor_process_frame(frame, DOWNSTREAM)
    /\ UNCHANGED <<focus, now, botVars, srvVars>>

BotLLMStep ==
    /\ focus = "bot" /\ session = "running"
    /\ BotFrameCount < MaxBotFrames
    /\ \E frame \in BotLLMFrames : LLMProgressProcessor_process_frame(frame, DOWNSTREAM)
    /\ UNCHANGED <<focus, now, botVars, srvVars>>

BotTTSStep ==
    /\ focus = "bot" /\ session = "running"
    /\ BotFrameCount < MaxBotFrames
    /\ \E frame \in BotTTSFrames : TTSStatusProcessor_process_frame(frame, DOWNSTREAM)
    /\ UNCHANGED <<focus, now, botVars, srvVars>>

NextBot == BotJoin \/ BotLeave \/ BotSTTStep \/ BotLLMStep \/ BotTTSStep \/ Tick

SpecBot == InitBot /\ [][NextBot]_vars

----------------------------------------------------------------------------
(* The server: lifespan and the /api/connect handler *)

ApiKeys == {None, "", "key"}        \* os.getenv("DAILY_API_KEY")
Urls == {"https://d.example/r1", "https://d.example/r2"}
Tokens == {"tok1", "tok2"}
Errors == {"boom"}                  \* str(e) of an Exception a Daily call raises

HTTPException(status_code, detail) ==
    [status_code |-> status_code, detail |-> detail]

\* mutant: the error is returned as a body instead of raised
ConnectExceptReturned(e) ==
    [status_code |-> 200, body |-> [error |-> "Failed to connect: " \o e]]

\* the handler's `except Exception as e` clause
ConnectExcept(e) == HTTPException(500, "Failed to connect: " \o e)

\* the dict the handler returns, sent with status 200
ConnectReturn(room_url, token) ==
    [status_code |-> 200, body |-> [room_url |-> room_url, token |-> token]]

\* mutant: the task is not added
add_task_dropped(tasks, func, args) == tasks

\* background_tasks.add_task(func, *args)
add_task(tasks, func, args) == Append(tasks, [func |-> func, args |-> args])

lifespan_startup(daily_api_key) ==
    /\ app = "starting"
    /\ aiohttp_session' = "open"
    /\ daily_helper' = IF Truthy(daily_api_key) THEN "DailyRESTHelper" ELSE None
    /\ app' = "serving"
    /\ UNCHANGED <<pc, room, user_token, bot_token, background_tasks, response>>

lifespan_shutdown ==
    /\ app = "serving"
    /\ \A r \in Requests : pc[r] \in {"idle", "done"}
    /\ aiohttp_session' = "closed"
    /\ app' = "stopped"
    /\ UNCHANGED <<daily_helper, pc, room, user_token, bot_token, background_tasks,
                   response>>

\* entry of connect, up to the first await
connect_begin(r) ==
    /\ app = "serving"
    /\ pc[r] = "idle"
    /\ IF daily_helper = None
       THEN /\ response' = [response EXCEPT ![r] = HTTPException(500, "Daily API not configured")]
            /\ pc' = [pc EXCEPT ![r] = "done"]
       ELSE /\ pc' = [pc EXCEPT ![r] = "create_room"]
            /\ UNCHANGED response
    /\ UNCHANGED <<app, aiohttp_session, daily_helper, room, user_token, bot_token,
                   background_tasks>>

\* await _daily_helper.create_room(...) returns a room or raises
connect_create_room(r) ==
    /\ pc[r] = "create_room"
    /\ \/ \E url \in Urls :
            /\ room' = [room EXCEPT ![r] = url]
            /\ pc' = [pc EXCEPT ![r] = "user_token"]
            /\ UNCHANGED response
       \/ \E e \in Errors :
            /\ response' = [response EXCEPT ![r] = ConnectExcept(e)]
            /\ pc' = [pc EXCEPT ![r] = "done"]
            /\ UNCHANGED room
    /\ UNCHANGED <<app, aiohttp_session, daily_helper, user_token, bot_token,
                   background_tasks>>

\* user_token = await _daily_helper.get_token(...) returns a token or raises
connect_user_token(r) ==
    /\ pc[r] = "user_token"
    /\ \/ \E t \in Tokens :
            /\ user_token' = [user_token EXCEPT ![r] = t]
            /\ pc' = [pc EXCEPT ![r] = "bot_token"]
            /\ UNCHANGED response
       \/ \E e \in Errors :
            /\ response' = [response EXCEPT ![r] = ConnectExcept(e)]
            /\ pc' = [pc EXCEPT ![r] = "done"]
            /\ UNCHANGED user_token
    /\ UNCHANGED <<app, aiohttp_session, daily_helper, room, bot_token,
                   background_tasks>>

\* bot_token = await _daily_helper.get_token(...) returns a token or raises;
\* with the token the handler adds the task and returns without awaiting
connect_bot_token(r) ==
    /\ pc[r] = "bot_token"
    /\ \/ \E t \in Tokens :
            /\ bot_token' = [bot_token EXCEPT ![r] = t]
            /\ background_tasks' = [background_tasks EXCEPT
                                       ![r] = add_task(@, "run_bot", <<room[r], t>>)]
            /\ response' = [response EXCEPT ![r] = ConnectReturn(room[r], user_token[r])]
       \/ \E e \in Errors :
            /\ response' = [response EXCEPT ![r] = ConnectExcept(e)]
            /\ UNCHANGED <<bot_token, background_tasks>>
    /\ pc' = [pc EXCEPT ![r] = "done"]
    /\ UNCHANGED <<app, aiohttp_session, daily_helper, room, user_token>>

InitConnect == Init /\ focus = "server" /\ character = "bugs"

Startup ==
    /\ \E daily_api_key \in ApiKeys : lifespan_startup(daily_api_key)
    /\ UNCHANGED <<focus, now, procVars, botVars>>

Shutdown ==
    /\ lifespan_shutdown
    /\ UNCHANGED <<focus, now, procVars, botVars>>

ConnectBegin ==
    /\ \E r \in Requests : connect_begin(r)
    /\ UNCHANGED <<focus, now, procVars, botVars>>

ConnectCreateRoom ==
    /\ \E r \in Requests : connect_create_room(r)
    /\ UNCHANGED <<focus, now, procVars, botVars>>

ConnectUserToken ==
    /\ \E r \in Requests : connect_user_token(r)
    /\ UNCHANGED <<focus, now, procVars, botVars>>

ConnectBotToken ==
    /\ \E r \in Requests : connect_bot_token(r)
    /\ UNCHANGED <<focus, now, procVars, botVars>>

NextConnect ==
    Startup \/ Shutdown \/ ConnectBegin \/ ConnectCreateRoom \/ ConnectUserToken
    \/ ConnectBotToken

SpecConnect == InitConnect /\ [][NextConnect]_vars

----------------------------------------------------------------------------
(* Reading the output logs *)

IsEmit(e) == e.by = "emit"
IsForward(e) == e.by = "forward"
IsOwnStatus(e) == e.by = "emit" /\ e.frame.message.type = "status"
IsOwnTranscript(e) == e.by = "emit" /\ e.frame.message.type = "transcript"

\* the status values a processor emitted, in order
OwnStatuses(out) ==
    LET s == SelectSeq(out, IsOwnStatus)
    IN  [i \in 1..Len(s) |-> s[i].frame.message.status]

\* the transcript messages a processor emitted, in order, each with the index
\* of the input frame that caused it
OwnTranscripts(out) ==
    LET s == SelectSeq(out, IsOwnTranscript)
    IN  [i \in 1..Len(s) |-> [message |-> s[i].frame.message, at |-> s[i].at]]

\* what a processor pushed while it processed its i-th input frame
PushedAt(out, i) == SelectSeq(out, LAMBDA e : e.at = i)

\* the incoming frames a processor passed on, as (frame, direction) pairs
Forwarded(out) ==
    LET s == SelectSeq(out, IsForward)
    IN  [i \in 1..Len(s) |-> [frame |-> s[i].frame, direction |-> s[i].direction]]

NoRepeat(s) == \A i \in 1..(Len(s) - 1) : s[i] # s[i + 1]

\* the number of frames of `kind` among the first n inputs
RECURSIVE CountKind(_, _, _)
CountKind(in, kind, n) ==
    IF n = 0 THEN 0
    ELSE CountKind(in, kind, n - 1) + (IF in[n].frame.kind = kind THEN 1 ELSE 0)

----------------------------------------------------------------------------
(* C1 *)

\* C1 as stated: neither STTProgressProcessor nor TTSStatusProcessor ever
\* emits two consecutive status messages with the same status value.
C1_NoDoubleEmit ==
    NoRepeat(OwnStatuses(sttOut)) /\ NoRepeat(OwnStatuses(ttsOut))

\* C1 as amended: TTSStatusProcessor never emits the same status twice in a
\* row; STTProgressProcessor never repeats "stt" or "llm", the only status it
\* emits twice in a row is "listening" (once per InterimTranscriptionFrame).
C1_NoDoubleEmitExceptListening ==
    /\ NoRepeat(OwnStatuses(ttsOut))
    /\ LET s == OwnStatuses(sttOut)
       IN  \A i \in 1..(Len(s) - 1) : s[i] = s[i + 1] => s[i] = "listening"

\* the TTS processor toggled tts, idle, tts and then received a
\* TTSStartedFrame directly followed by another start-of-speech frame
C1_Witness ==
    /\ Len(OwnStatuses(ttsOut)) >= 2
    /\ \E i \in 2..(Len(ttsIn) - 1) :
          /\ ttsIn[i].frame.kind = "TTSStartedFrame"
          /\ ttsIn[i + 1].frame.kind \in {"TTSStartedFrame", "TTSSpeakFrame"}

----------------------------------------------------------------------------
(* C6 *)

\* C6: every processor pushes each incoming frame exactly once, unchanged, in
\* the direction it arrived and in arrival order, after whatever it emitted
\* for that frame; everything it emits itself goes downstream.
C6_ForwardsEveryFrame ==
    /\ Forwarded(sttOut) = sttIn
    /\ Forwarded(llmOut) = llmIn
    /\ Forwarded(ttsOut) = ttsIn
    /\ \A out \in {sttOut, llmOut, ttsOut} :
          \A k \in 1..Len(out) :
             /\ IsEmit(out[k]) => out[k].direction = DOWNSTREAM
             /\ IsForward(out[k]) => \A j \in (k + 1)..Len(out) : out[j].at > out[k].at

\* an upstream LLMFullResponseEndFrame reached the LLM processor while it held
\* accumulated text and a non-zero message counter
C6_Witness ==
    \E i \in 1..Len(llmIn) :
       /\ llmIn[i].direction = UPSTREAM
       /\ llmIn[i].frame.kind = "LLMFullResponseEndFrame"
       /\ Len(PushedAt(llmOut, i)) = 2
       /\ assistant_message_id > 0

----------------------------------------------------------------------------
(* C7 *)

\* C7: for a TranscriptionFrame the STT processor pushes, in order, status
\* "stt", one final user transcript numbered one more than the previous user
\* transcript, status "llm", then the frame; for an InterimTranscriptionFrame
\* only status "listening" then the frame; the user counter counts the
\* TranscriptionFrames alone.
C7_TranscriptionOrder ==
    /\ user_message_id = CountKind(sttIn, "TranscriptionFrame", Len(sttIn))
    /\ \A i \in 1..Len(sttIn) :
          LET p == PushedAt(sttOut, i)
              f == sttIn[i].frame
          IN  /\ f.kind = "TranscriptionFrame" =>
                    /\ Len(p) = 4
                    /\ IsOwnStatus(p[1]) /\ p[1].frame.message.status = "stt"
                    /\ IsOwnTranscript(p[2])
                    /\ p[2].frame.message.role = "user"
                    /\ p[2].frame.message.final = TRUE
                    /\ p[2].frame.message.text = f.text
                    /\ IsOwnStatus(p[3]) /\ p[3].frame.message.status = "llm"
                    /\ IsForward(p[4]) /\ p[4].frame = f
              /\ f.kind = "InterimTranscriptionFrame" =>
                    /\ Len(p) = 2
                    /\ IsOwnStatus(p[1]) /\ p[1].frame.message.status = "listening"
                    /\ IsForward(p[2]) /\ p[2].frame = f
    /\ LET t == OwnTranscripts(sttOut)
       IN  \A k \in 1..Len(t) :
              t[k].message.messageId = (IF k = 1 THEN 0 ELSE t[k - 1].message.messageId) + 1

\* two transcriptions with an interim frame between them have been processed
C7_Witness ==
    /\ user_message_id = 2
    /\ \E i \in 1..(Len(sttIn) - 2) :
          /\ sttIn[i].frame.kind = "TranscriptionFrame"
          /\ sttIn[i + 1].frame.kind = "InterimTranscriptionFrame"
          /\ sttIn[i + 2].frame.kind = "TranscriptionFrame"

----------------------------------------------------------------------------
(* C10 *)

\* C10: _is_speaking is true exactly when the last status the TTS processor
\* emitted is "tts"; so an interruption or stop that arrives when the last
\* toggle was already an interruption or stop emits nothing.
C10_SpeakingIffLastStatusTts ==
    /\ LET s == OwnStatuses(ttsOut)
       IN  is_speaking <=> (Len(s) > 0 /\ s[Len(s)] = "tts")
    /\ \A i \in 1..Len(ttsIn) :
          LET stops == {"StartInterruptionFrame", "TTSStoppedFrame"}
              starts == {"TTSStartedFrame", "TTSSpeakFrame"}
          IN  /\ Len(SelectSeq(PushedAt(ttsOut, i), IsEmit)) <= 1
              /\ (/\ ttsIn[i].frame.kind \in stops
                  /\ \E h \in 1..(i - 1) :
                        /\ ttsIn[h].frame.kind \in stops
                        /\ \A j \in (h + 1)..(i - 1) : ttsIn[j].frame.kind \notin starts)
                 => SelectSeq(PushedAt(ttsOut, i), IsEmit) = <<>>

\* speaking, interrupted (idle emitted once), then a stop that emits nothing
C10_Witness ==
    /\ ~is_speaking
    /\ OwnStatuses(ttsOut) = <<"tts", "idle">>
    /\ \E i \in 2..(Len(ttsIn) - 1) :
          /\ ttsIn[i].frame.kind = "StartInterruptionFrame"
          /\ ttsIn[i + 1].frame.kind = "TTSStoppedFrame"
          /\ ttsIn[i - 1].frame.kind = "TTSSpeakFrame"

----------------------------------------------------------------------------
(* Reading the LLM processor's input history *)

\* the index of the last of the first n inputs whose kind is in kinds, or 0
LastOf(in, kinds, n) ==
    LET S == {j \in 1..n : in[j].frame.kind \in kinds}
    IN  IF S = {} THEN 0 ELSE CHOOSE j \in S : \A k \in S : k <= j

\* the texts of the LLMTextFrames among inputs from..to, concatenated in
\* arrival order
RECURSIVE ConcatTexts(_, _, _)
ConcatTexts(in, from, to) ==
    IF from > to THEN ""
    ELSE ConcatTexts(in, from, to - 1)
         \o (IF in[to].frame.kind = "LLMTextFrame" THEN in[to].frame.text ELSE "")

Brackets == {"LLMFullResponseStartFrame", "LLMFullResponseEndFrame"}

\* the i-th input lies inside a response: the last start or end frame before
\* it is a start frame
InSpan(i) ==
    LET j == LastOf(llmIn, Brackets, i - 1)
    IN  j > 0 /\ llmIn[j].frame.kind = "LLMFullResponseStartFrame"

\* the response the i-th input belongs to: the number of start frames so far
SpanOf(i) == CountKind(llmIn, "LLMFullResponseStartFrame", i)

\* every final assistant transcript repeats the text and the messageId of the
\* non-final transcript emitted just before it
FinalRepeatsLastPartial ==
    LET t == OwnTranscripts(llmOut)
    IN  \A k \in 1..Len(t) :
           t[k].message.final =>
              /\ llmIn[t[k].at].frame.kind = "LLMFullResponseEndFrame"
              /\ k > 1
              /\ ~t[k - 1].message.final
              /\ t[k - 1].message.text = t[k].message.text
              /\ t[k - 1].message.messageId = t[k].message.messageId

----------------------------------------------------------------------------
(* C8 *)

\* C8 as stated: a non-final assistant transcript carries the texts of all
\* LLMTextFrames since the most recent LLMFullResponseStartFrame, and the
\* final one repeats the last non-final one.
C8_TextSinceStart ==
    /\ LET t == OwnTranscripts(llmOut)
       IN  \A k \in 1..Len(t) :
              (/\ ~t[k].message.final
               /\ LastOf(llmIn, {"LLMFullResponseStartFrame"}, t[k].at) > 0)
              => t[k].message.text =
                    ConcatTexts(llmIn,
                                LastOf(llmIn, {"LLMFullResponseStartFrame"}, t[k].at) + 1,
                                t[k].at)
    /\ FinalRepeatsLastPartial

\* C8 as amended: a non-final assistant transcript carries the texts of all
\* LLMTextFrames since the most recent LLMFullResponseStartFrame or
\* LLMFullResponseEndFrame (since construction when there is none), and the
\* final one repeats the text and messageId of the last non-final one.
C8_TextSinceStartOrEnd ==
    /\ LET t == OwnTranscripts(llmOut)
       IN  \A k \in 1..Len(t) :
              ~t[k].message.final =>
                 t[k].message.text =
                    ConcatTexts(llmIn, LastOf(llmIn, Brackets, t[k].at) + 1, t[k].at)
    /\ FinalRepeatsLastPartial

\* a response of two different text frames was closed by its end frame
C8_Witness ==
    LET t == OwnTranscripts(llmOut)
    IN  \E k \in 1..Len(t) :
           /\ t[k].message.final
           /\ t[k].message.text = "ab"
           /\ InSpan(t[k].at)

----------------------------------------------------------------------------
(* C9 *)

NoTranscriptAfterFinal(out) ==
    LET t == OwnTranscripts(out)
    IN  \A p \in 1..Len(t) : \A q \in (p + 1)..Len(t) :
           t[p].message.final =>
              ~(/\ t[q].message.role = t[p].message.role
                /\ t[q].message.messageId = t[p].message.messageId)

\* C9 as stated: after a final transcript for a role and messageId no later
\* transcript carries that role and messageId.
C9_FinalCloses ==
    NoTranscriptAfterFinal(sttOut) /\ NoTranscriptAfterFinal(llmOut)

\* C9 as amended: that holds for user transcripts, and for assistant
\* transcripts emitted inside a response; the only later transcript with the
\* role and messageId of a final one is one emitted for frames that arrive
\* after the LLMFullResponseEndFrame with no LLMFullResponseStartFrame between.
C9_FinalClosesInsideSpan ==
    /\ NoTranscriptAfterFinal(sttOut)
    /\ LET t == OwnTranscripts(llmOut)
       IN  \A p \in 1..Len(t) : \A q \in (p + 1)..Len(t) :
              (/\ t[p].message.final
               /\ t[q].message.role = t[p].message.role
               /\ t[q].message.messageId = t[p].message.messageId)
              => ~InSpan(t[q].at)

\* a final transcript was emitted, then a new response started and emitted a
\* transcript under the next messageId
C9_Witness ==
    LET t == OwnTranscripts(llmOut)
    IN  \E p \in 1..Len(t) : \E q \in (p + 1)..Len(t) :
           /\ t[p].message.final
           /\ InSpan(t[q].at)
           /\ t[q].message.messageId = t[p].message.messageId + 1

----------------------------------------------------------------------------
(* C2 *)

\* the transcript messages a bot session sends towards the client: those the
\* STT and LLM processors emit and those the greeting handler queues
ClientTranscripts ==
    {OwnTranscripts(sttOut)[k].message : k \in 1..Len(OwnTranscripts(sttOut))}
    \cup {OwnTranscripts(llmOut)[k].message : k \in 1..Len(OwnTranscripts(llmOut))}
    \cup {queued[k].message : k \in {j \in 1..Len(queued) :
                                        /\ queued[j].kind = "OutputTransportMessageFrame"
                                        /\ queued[j].message.type = "transcript"}}

\* C2: every transcript message of a bot session carries a messageId field.
C2_TranscriptsCarryMessageId ==
    \A m \in ClientTranscripts : "messageId" \in DOMAIN m

----------------------------------------------------------------------------
(* C3 *)

\* the transcripts of both processors, each with the turn it comes from: the
\* TranscriptionFrame for a user transcript; for an assistant one the number
\* of start frames received and whether the frame lies inside that response
TurnTranscripts ==
    {[message |-> OwnTranscripts(sttOut)[k].message,
      turn |-> <<"utterance", OwnTranscripts(sttOut)[k].at>>,
      inside |-> TRUE] : k \in 1..Len(OwnTranscripts(sttOut))}
    \cup
    {[message |-> OwnTranscripts(llmOut)[k].message,
      turn |-> <<"response", SpanOf(OwnTranscripts(llmOut)[k].at),
                 InSpan(OwnTranscripts(llmOut)[k].at)>>,
      inside |-> InSpan(OwnTranscripts(llmOut)[k].at)] : k \in 1..Len(OwnTranscripts(llmOut))}

\* C3 as stated: two transcripts with the same messageId have the same role
\* and come from the same utterance or the same response span.
C3_MessageIdIdentifiesTurn ==
    \A x, y \in TurnTranscripts :
       x.message.messageId = y.message.messageId =>
          /\ x.message.role = y.message.role
          /\ x.turn = y.turn

\* C3 as amended: two transcripts with the same role and the same messageId
\* come from the same utterance (user) or, when both were emitted inside a
\* start..end span, from the same response (assistant).
C3_RoleAndMessageIdIdentifyTurn ==
    \A x, y \in TurnTranscripts :
       (/\ x.message.role = y.message.role
        /\ x.message.messageId = y.message.messageId
        /\ x.inside /\ y.inside)
       => x.turn = y.turn

\* a user turn and an assistant response carry the same messageId, and the
\* response has a non-final and a final transcript
C3_Witness ==
    \E x, y, z \in TurnTranscripts :
       /\ x.message.role = "user" /\ y.message.role = "assistant"
       /\ x.message.messageId = y.message.messageId
       /\ z.message.role = "assistant" /\ z.message.messageId = y.message.messageId
       /\ ~y.message.final /\ z.message.final
       /\ y.inside /\ z.inside

----------------------------------------------------------------------------
(* C4 *)

\* something failed on the way of request r: no helper, or a call raised
\* before the handler had the room and both tokens
Failed(r) ==
    \/ daily_helper = None
    \/ room[r] = None
    \/ user_token[r] = None
    \/ bot_token[r] = None

\* C4: a finished connect request on which anything failed ends with an HTTP
\* 500 error response, never with a success response.
C4_FailureIs500 ==
    \A r \in Requests :
       (pc[r] = "done" /\ Failed(r)) =>
          /\ response[r].status_code = 500
          /\ "body" \notin DOMAIN response[r]

\* one request failed at the bot token after room and user token succeeded,
\* another failed at room creation
C4_Witness ==
    \E r, q \in Requests :
       /\ pc[r] = "done" /\ room[r] # None /\ user_token[r] # None /\ bot_token[r] = None
       /\ pc[q] = "done" /\ room[q] = None /\ daily_helper # None

----------------------------------------------------------------------------
(* C5 *)

\* C5: a request has at most one background task; it has one exactly when
\* room and both tokens were obtained; an error response comes with no task,
\* and a success response with run_bot scheduled for the room URL it returns.
C5_BotScheduledOncePerSuccess ==
    \A r \in Requests :
       /\ Len(background_tasks[r]) <= 1
       /\ Len(background_tasks[r]) = 1 <=>
             (room[r] # None /\ user_token[r] # None /\ bot_token[r] # None)
       /\ (pc[r] = "done" /\ response[r].status_code # 200) =>
             background_tasks[r] = <<>>
       /\ (pc[r] = "done" /\ response[r].status_code = 200) =>
             /\ background_tasks[r] =
                   <<[func |-> "run_bot",
                      args |-> <<response[r].body.room_url, bot_token[r]>>]>>
             /\ response[r].body.token = user_token[r]

\* one request succeeded while another ended in an error
C5_Witness ==
    \E r, q \in Requests :
       /\ pc[r] = "done" /\ response[r].status_code = 200
       /\ pc[q] = "done" /\ response[q].status_code = 500
       /\ room[q] # None

====
